---- MODULE Spec2Model ----
(***************************************************************************)
(* Verification model of parts of TBTK:                                    *)
(*   - GPUResourceManager (device pool with busy flags and an OpenMP lock) *)
(*   - Solver::ElectronFluctuationVertex::calculateSelfEnergyVertex        *)
(*   - PropertyExtractor::Diagonalizer (eigenvalues, wave functions and    *)
(*     the index-resolved properties)                                      *)
(*   - RayTracer::EventHandler (the lock on the mouse callback)            *)
(***************************************************************************)
EXTENDS Integers, Sequences, FiniteSets, TLC

(***************************************************************************)
(* Bounds of the model.                                                    *)
(***************************************************************************)
NumThreads == 3
MaxDevices == 2
NumLiveThreads == 2
MaxComponents == 6
MaxAmplitudes == 3
Resolution == 2
NumMatsubaraEnergies == 1

NarrowSignificandBits == 3
MaxSites == 2
NumEigenVectorTables == 2
NumRayTracers == 2
NumCallbacks == 2

Threads == 1..NumThreads
NoThread == 0
NoDevice == -1

VARIABLES
    numDevices,        \* GPUResourceManager::numDevices
    busyDevices,       \* GPUResourceManager::busyDevices, [0..numDevices-1 -> BOOLEAN]
    busyDevicesLock,   \* GPUResourceManager::busyDevicesLock: the thread owning it, or NoThread
    pc,                \* position of every thread
    n,                 \* allocateDevice(): loop variable n of every thread
    device,            \* allocateDevice(): local device; freeDevice(): the parameter device
    done,              \* allocateDevice(): local done
    lease,             \* the id a caller obtained from allocateDevice() and has not yet passed to freeDevice()
    failed             \* the caller's section raised a failure while the lease was held

VARIABLES
    index,             \* calculateSelfEnergyVertex(): the argument index, subindices and separators
    susceptibility,    \* ElectronFluctuationVertex::susceptibility
    leftInteraction,   \* ElectronFluctuationVertex::leftInteraction (uLeft)
    rightInteraction,  \* ElectronFluctuationVertex::rightInteraction (uRight)
    multiplier,        \* ElectronFluctuationVertex::multiplier
    selfEnergyVertex,  \* calculateSelfEnergyVertex(): the vector selfEnergyVertex
    vertexState,       \* position and outcome of the call of calculateSelfEnergyVertex()
    significandBits    \* the bits of the significand of a double

VARIABLES
    eigenValues,       \* Solver::Diagonalizer: the eigenvalues, ascending
    eigenVectors,      \* Solver::Diagonalizer: the amplitude of every (state, Index)
    indexSpace,        \* the Indices of the Model, in their canonical order
    request,           \* the call made on the PropertyExtractor::Diagonalizer, with its arguments
    container          \* what the call returned

VARIABLES
    isLocked,            \* RayTracer::EventHandler::isLocked
    owner,               \* RayTracer::EventHandler::owner
    lambdaOnMouseChange, \* RayTracer::EventHandler::lambdaOnMouseChange
    handlerCall          \* the last call on the EventHandler, with its arguments and what it returned

poolVars == <<numDevices, busyDevices, busyDevicesLock, pc, n, device, done, lease, failed>>

vertexVars == <<index, susceptibility, leftInteraction, rightInteraction, multiplier,
                selfEnergyVertex, vertexState, significandBits>>

extractorVars == <<eigenValues, eigenVectors, indexSpace, request, container>>

handlerVars == <<isLocked, owner, lambdaOnMouseChange, handlerCall>>

vars == <<poolVars, vertexVars, extractorVars, handlerVars>>

\* what the steps of the device pool, of the vertex calculation, of the
\* property extractor and of the event handler leave alone
nonPoolVars == <<vertexVars, extractorVars, handlerVars>>

nonVertexVars == <<poolVars, extractorVars, handlerVars>>

nonExtractorVars == <<poolVars, vertexVars, handlerVars>>

nonHandlerVars == <<poolVars, vertexVars, extractorVars>>

Devices == 0..(numDevices - 1)

(***************************************************************************)
(* GPUResourceManager::StaticConstructor. createDeviceTable() probes the   *)
(* device count and allocates the flags, all clear.                        *)
(***************************************************************************)
InitPool ==
    /\ numDevices \in 0..MaxDevices
    /\ busyDevices = [d \in 0..(numDevices - 1) |-> FALSE]
    /\ busyDevicesLock = NoThread
    /\ pc = [t \in Threads |-> "idle"]
    /\ n = [t \in Threads |-> 0]
    /\ device = [t \in Threads |-> 0]
    /\ done = [t \in Threads |-> FALSE]
    /\ lease = [t \in Threads |-> NoDevice]
    /\ failed = [t \in Threads |-> FALSE]

(***************************************************************************)
(* omp_set_lock / omp_unset_lock on busyDevicesLock.                       *)
(***************************************************************************)
(* mutant: the lock is taken without waiting for its owner to release it *)
OmpSetLockNoWait(t) ==
    /\ busyDevicesLock' = t

OmpSetLock(t) ==
    /\ busyDevicesLock = NoThread
    /\ busyDevicesLock' = t

OmpUnsetLock(t) ==
    /\ busyDevicesLock' = NoThread

(***************************************************************************)
(* allocateDevice(), lines 30-38: the assertion numDevices > 0, then       *)
(* device = 0; done = false.                                               *)
(***************************************************************************)
(* mutant: the assertion is missing *)
AllocEnterNoAssert(t) ==
    /\ pc[t] = "idle"
    /\ pc' = [pc EXCEPT ![t] = "alloc_set_lock"]
    /\ device' = [device EXCEPT ![t] = 0]
    /\ done' = [done EXCEPT ![t] = FALSE]
    /\ UNCHANGED nonPoolVars
    /\ UNCHANGED <<numDevices, busyDevices, busyDevicesLock, n, lease, failed>>

AllocEnter(t) ==
    /\ pc[t] = "idle"
    /\ pc' = [pc EXCEPT ![t] = IF numDevices > 0 THEN "alloc_set_lock" ELSE "fatal"]
    /\ device' = [device EXCEPT ![t] = 0]
    /\ done' = [done EXCEPT ![t] = FALSE]
    /\ UNCHANGED nonPoolVars
    /\ UNCHANGED <<numDevices, busyDevices, busyDevicesLock, n, lease, failed>>

(* mutant: the scan starts at n = 1 *)
AllocSetLockFromOne(t) ==
    /\ pc[t] = "alloc_set_lock"
    /\ OmpSetLock(t)
    /\ n' = [n EXCEPT ![t] = 1]
    /\ pc' = [pc EXCEPT ![t] = "alloc_test"]
    /\ UNCHANGED nonPoolVars
    /\ UNCHANGED <<numDevices, busyDevices, device, done, lease, failed>>

(* line 40: omp_set_lock; line 43: n = 0 *)
AllocSetLock(t) ==
    /\ pc[t] = "alloc_set_lock"
    /\ OmpSetLock(t)
    /\ n' = [n EXCEPT ![t] = 0]
    /\ pc' = [pc EXCEPT ![t] = "alloc_test"]
    /\ UNCHANGED nonPoolVars
    /\ UNCHANGED <<numDevices, busyDevices, device, done, lease, failed>>

(* mutant: the flag is not tested *)
AllocTestNoCheck(t) ==
    /\ pc[t] = "alloc_test"
    /\ IF n[t] < numDevices
       THEN /\ pc' = [pc EXCEPT ![t] = "alloc_take"]
            /\ n' = n
       ELSE /\ pc' = [pc EXCEPT ![t] = "alloc_unset_lock"]
            /\ n' = n
    /\ UNCHANGED nonPoolVars
    /\ UNCHANGED <<numDevices, busyDevices, busyDevicesLock, device, done, lease, failed>>

(* lines 43-44: the loop condition and the read of busyDevices[n] *)
AllocTest(t) ==
    /\ pc[t] = "alloc_test"
    /\ IF n[t] < numDevices
       THEN IF ~busyDevices[n[t]]
            THEN /\ pc' = [pc EXCEPT ![t] = "alloc_take"]
                 /\ n' = n
            ELSE /\ n' = [n EXCEPT ![t] = n[t] + 1]
                 /\ pc' = pc
       ELSE /\ pc' = [pc EXCEPT ![t] = "alloc_unset_lock"]
            /\ n' = n
    /\ UNCHANGED nonPoolVars
    /\ UNCHANGED <<numDevices, busyDevices, busyDevicesLock, device, done, lease, failed>>

(* mutant: the device is taken without its flag being set *)
AllocTakeNoMark(t) ==
    /\ pc[t] = "alloc_take"
    /\ device' = [device EXCEPT ![t] = n[t]]
    /\ done' = [done EXCEPT ![t] = TRUE]
    /\ pc' = [pc EXCEPT ![t] = "alloc_unset_lock"]
    /\ UNCHANGED nonPoolVars
    /\ UNCHANGED <<numDevices, busyDevices, busyDevicesLock, n, lease, failed>>

(* lines 45-48: device = n; busyDevices[n] = true; done = true; break *)
AllocTake(t) ==
    /\ pc[t] = "alloc_take"
    /\ device' = [device EXCEPT ![t] = n[t]]
    /\ busyDevices' = [busyDevices EXCEPT ![n[t]] = TRUE]
    /\ done' = [done EXCEPT ![t] = TRUE]
    /\ pc' = [pc EXCEPT ![t] = "alloc_unset_lock"]
    /\ UNCHANGED nonPoolVars
    /\ UNCHANGED <<numDevices, busyDevicesLock, n, lease, failed>>

(* mutant: the lock is released only by an iteration that found a device *)
AllocUnsetLockWhenDone(t) ==
    /\ pc[t] = "alloc_unset_lock"
    /\ IF done[t] THEN OmpUnsetLock(t) ELSE busyDevicesLock' = busyDevicesLock
    /\ pc' = [pc EXCEPT ![t] = IF done[t] THEN "alloc_return" ELSE "alloc_set_lock"]
    /\ UNCHANGED nonPoolVars
    /\ UNCHANGED <<numDevices, busyDevices, n, device, done, lease, failed>>

(* line 53: omp_unset_lock, then the loop condition !done of line 39 *)
AllocUnsetLock(t) ==
    /\ pc[t] = "alloc_unset_lock"
    /\ OmpUnsetLock(t)
    /\ pc' = [pc EXCEPT ![t] = IF done[t] THEN "alloc_return" ELSE "alloc_set_lock"]
    /\ UNCHANGED nonPoolVars
    /\ UNCHANGED <<numDevices, busyDevices, n, device, done, lease, failed>>

(* line 56: return device; the caller now holds the lease *)
AllocReturn(t) ==
    /\ pc[t] = "alloc_return"
    /\ lease' = [lease EXCEPT ![t] = device[t]]
    /\ done' = [done EXCEPT ![t] = FALSE]
    /\ device' = [device EXCEPT ![t] = 0]
    /\ n' = [n EXCEPT ![t] = 0]
    /\ pc' = [pc EXCEPT ![t] = "section"]
    /\ UNCHANGED nonPoolVars
    /\ UNCHANGED <<numDevices, busyDevices, busyDevicesLock, failed>>

(***************************************************************************)
(* The caller's section between allocateDevice() and freeDevice(): it ends *)
(* normally or with a failure; on both paths the caller calls              *)
(* freeDevice(id) with the id it holds.                                    *)
(***************************************************************************)
SectionEnd(t) ==
    /\ pc[t] = "section"
    /\ failed' = [failed EXCEPT ![t] = FALSE]
    /\ device' = [device EXCEPT ![t] = lease[t]]
    /\ lease' = [lease EXCEPT ![t] = NoDevice]
    /\ pc' = [pc EXCEPT ![t] = "free_set_lock"]
    /\ UNCHANGED nonPoolVars
    /\ UNCHANGED <<numDevices, busyDevices, busyDevicesLock, n, done>>

(* mutant: the failure leaves the section without a call of freeDevice() *)
SectionFailNoRelease(t) ==
    /\ pc[t] = "section"
    /\ failed' = [failed EXCEPT ![t] = TRUE]
    /\ lease' = [lease EXCEPT ![t] = NoDevice]
    /\ pc' = [pc EXCEPT ![t] = "propagate"]
    /\ UNCHANGED nonPoolVars
    /\ UNCHANGED <<numDevices, busyDevices, busyDevicesLock, n, device, done>>

SectionFail(t) ==
    /\ pc[t] = "section"
    /\ failed' = [failed EXCEPT ![t] = TRUE]
    /\ device' = [device EXCEPT ![t] = lease[t]]
    /\ lease' = [lease EXCEPT ![t] = NoDevice]
    /\ pc' = [pc EXCEPT ![t] = "free_set_lock"]
    /\ UNCHANGED nonPoolVars
    /\ UNCHANGED <<numDevices, busyDevices, busyDevicesLock, n, done>>

(* mutant: freeDevice() does not take the lock *)
FreeSetLockSkipped(t) ==
    /\ pc[t] = "free_set_lock"
    /\ pc' = [pc EXCEPT ![t] = "free_write"]
    /\ UNCHANGED nonPoolVars
    /\ UNCHANGED <<numDevices, busyDevices, busyDevicesLock, n, device, done, lease, failed>>

(* freeDevice(), line 60 *)
FreeSetLock(t) ==
    /\ pc[t] = "free_set_lock"
    /\ OmpSetLock(t)
    /\ pc' = [pc EXCEPT ![t] = "free_write"]
    /\ UNCHANGED nonPoolVars
    /\ UNCHANGED <<numDevices, busyDevices, n, device, done, lease, failed>>

(* mutant: every flag is cleared *)
FreeWriteAll(t) ==
    /\ pc[t] = "free_write"
    /\ busyDevices' = [d \in DOMAIN busyDevices |-> FALSE]
    /\ pc' = [pc EXCEPT ![t] = "free_unset_lock"]
    /\ UNCHANGED nonPoolVars
    /\ UNCHANGED <<numDevices, busyDevicesLock, n, device, done, lease, failed>>

(* line 63: busyDevices[device] = false *)
FreeWrite(t) ==
    /\ pc[t] = "free_write"
    /\ busyDevices' = [busyDevices EXCEPT ![device[t]] = FALSE]
    /\ pc' = [pc EXCEPT ![t] = "free_unset_lock"]
    /\ UNCHANGED nonPoolVars
    /\ UNCHANGED <<numDevices, busyDevicesLock, n, device, done, lease, failed>>

(* line 66: omp_unset_lock and return to the caller, which then leaves its *)
(* section: normally, or by propagating the failure.                       *)
FreeUnsetLock(t) ==
    /\ pc[t] = "free_unset_lock"
    /\ OmpUnsetLock(t)
    /\ pc' = [pc EXCEPT ![t] = IF failed[t] THEN "propagate" ELSE "idle"]
    /\ device' = [device EXCEPT ![t] = 0]
    /\ UNCHANGED nonPoolVars
    /\ UNCHANGED <<numDevices, busyDevices, n, done, lease, failed>>

(* the failure leaves the caller *)
Propagate(t) ==
    /\ pc[t] = "propagate"
    /\ pc' = [pc EXCEPT ![t] = "exited"]
    /\ UNCHANGED nonPoolVars
    /\ UNCHANGED <<numDevices, busyDevices, busyDevicesLock, n, device, done, lease, failed>>

ThreadStep(t) ==
    \/ AllocEnter(t)
    \/ AllocSetLock(t)
    \/ AllocTest(t)
    \/ AllocTake(t)
    \/ AllocUnsetLock(t)
    \/ AllocReturn(t)
    \/ SectionEnd(t)
    \/ SectionFail(t)
    \/ FreeSetLock(t)
    \/ FreeWrite(t)
    \/ FreeUnsetLock(t)
    \/ Propagate(t)

Next == \E t \in Threads : ThreadStep(t)

(***************************************************************************)
(* Solver::ElectronFluctuationVertex.                                      *)
(*                                                                         *)
(* complex<double> values are pairs <<re, im>> of integers. Amplitudes are *)
(* counted in units of 5e-11, so that the cutoff 1e-10 of lines 138 and    *)
(* 154 is Cutoff units. CAdd, CMul and CScale are the sums and products of *)
(* complex numbers; DAdd, DMul and DScale are those of complex<double>,    *)
(* every real sum and product rounded to the significand of a double (to   *)
(* nearest, ties to even; the exponent is unbounded). The significand of   *)
(* a double has DoubleSignificandBits bits, which rounds nothing below     *)
(* 2^53; the variable significandBits lets a run use a narrower one, so    *)
(* that rounding happens on small numbers.                                 *)
(***************************************************************************)
Cutoff == 2

DoubleSignificandBits == 53

CZero == <<0, 0>>

CAdd(a, b) == <<a[1] + b[1], a[2] + b[2]>>

CMul(a, b) == <<a[1] * b[1] - a[2] * b[2], a[1] * b[2] + a[2] * b[1]>>

CScale(a, r) == <<a[1] * r, a[2] * r>>

RECURSIVE BitLength(_)
BitLength(x) == IF x = 0 THEN 0 ELSE 1 + BitLength(x \div 2)

RECURSIVE PowerOfTwo(_)
PowerOfTwo(e) == IF e = 0 THEN 1 ELSE 2 * PowerOfTwo(e - 1)

\* the nearest number with a significand of bits bits, ties to even
RoundMagnitude(x, bits) ==
    LET e == BitLength(x) - bits
    IN  IF e <= 0 THEN x
        ELSE LET unit == PowerOfTwo(e)
                 q == x \div unit
                 r == x % unit
                 up == 2 * r > unit \/ (2 * r = unit /\ q % 2 = 1)
             IN  (IF up THEN q + 1 ELSE q) * unit

\* bits = 0 stands for real numbers: nothing is rounded. Every number of a
\* run is below 2^31, so a significand of 31 bits or more rounds nothing.
Round(x, bits) ==
    IF bits = 0 \/ bits >= 31 THEN x
    ELSE IF x < 0 THEN -RoundMagnitude(-x, bits)
    ELSE RoundMagnitude(x, bits)

\* a complex<double>: both parts are doubles
DRound(z, bits) == <<Round(z[1], bits), Round(z[2], bits)>>

DAdd(a, b, bits) == <<Round(a[1] + b[1], bits), Round(a[2] + b[2], bits)>>

DMul(a, b, bits) ==
    <<Round(Round(a[1] * b[1], bits) - Round(a[2] * b[2], bits), bits),
      Round(Round(a[1] * b[2], bits) + Round(a[2] * b[1], bits), bits)>>

DScale(a, r, bits) == <<Round(a[1] * r, bits), Round(a[2] * r, bits)>>

(* mutant: the comparison with the cutoff is <= *)
BelowCutoffInclusive(z) == z[1] * z[1] + z[2] * z[2] <= Cutoff * Cutoff

(* abs(amplitude) < 1e-10 *)
BelowCutoff(z) == z[1] * z[1] + z[2] * z[2] < Cutoff * Cutoff

(***************************************************************************)
(* Index: a sequence of subindices; a compound Index holds its component   *)
(* Indices one after the other with IDX_SEPARATOR between them.            *)
(***************************************************************************)
IDX_SEPARATOR == -1

RECURSIVE Compound(_)
Compound(cs) ==
    IF cs = <<>> THEN <<>>
    ELSE IF Len(cs) = 1 THEN cs[1]
    ELSE cs[1] \o <<IDX_SEPARATOR>> \o Compound(Tail(cs))

(* Index::split(): the components between the separators *)
RECURSIVE SplitFrom(_, _, _)
SplitFrom(idx, m, components) ==
    IF m > Len(idx) THEN components
    ELSE IF idx[m] = IDX_SEPARATOR
         THEN SplitFrom(idx, m + 1, Append(components, <<>>))
         ELSE SplitFrom(idx, m + 1,
                        [components EXCEPT ![Len(components)] = Append(@, idx[m])])

Split(idx) == SplitFrom(idx, 1, << <<>> >>)

(***************************************************************************)
(* Property::Susceptibility: energy type, resolution, number of Matsubara  *)
(* energies, and the data: one block of energies per compound Index.       *)
(***************************************************************************)
EnergyTypes == {"Real", "FermionicMatsubara", "BosonicMatsubara"}

Orbitals == {0, 1}

BlockSize(sus) ==
    IF sus.energyType = "Real" THEN sus.resolution ELSE sus.numMatsubaraEnergies

KOrdinal(k) ==
    IF k = <<>> THEN 0
    ELSE IF Len(k) = 1 THEN 1 + k[1]
    ELSE 3 + Cardinality(Orbitals) * k[1] + k[2]

(* Susceptibility::getOffset({kIndex, {c0}, {a1}, {c1}, {a0}}) *)
GetOffset(sus, kIndex, i1, i2, i3, i4) ==
    LET b == Cardinality(Orbitals)
    IN  ((((KOrdinal(kIndex) * b + i1) * b + i2) * b + i3) * b + i4) * BlockSize(sus)

(* Susceptibility::getData()[position] *)
SusceptibilityData(sus, position) == <<position + 1, (position % 3) - 1>>

(***************************************************************************)
(* calculateSelfEnergyVertexMainAlgorithm(), lines 127-182.                *)
(***************************************************************************)
(* mutant: the contribution is assigned, not added *)
AddContributionAssign(vertex, amplitude_i, amplitude_o, offset, ctx) ==
    [m \in 1..Len(vertex) |->
        DScale(DMul(DMul(amplitude_i, amplitude_o, ctx.bits),
                    DRound(SusceptibilityData(ctx.susceptibility, offset + (m - 1)), ctx.bits),
                    ctx.bits),
               ctx.multiplier, ctx.bits)]

(* lines 170-180 *)
AddContribution(vertex, amplitude_i, amplitude_o, offset, ctx) ==
    [m \in 1..Len(vertex) |->
        DAdd(vertex[m],
             DScale(DMul(DMul(amplitude_i, amplitude_o, ctx.bits),
                         DRound(SusceptibilityData(ctx.susceptibility, offset + (m - 1)), ctx.bits),
                         ctx.bits),
                    ctx.multiplier, ctx.bits),
             ctx.bits)]

(* lines 151-155: the outgoing amplitude is skipped *)
SkipOutgoing(o, ctx) ==
    \/ o.a0 # ctx.intraBlockIndices[1][1]
    \/ o.c1 # ctx.intraBlockIndices[2][1]
    \/ BelowCutoff(o.amplitude)

(* mutant: the incoming legs are compared with the wrong operators *)
SkipIncommingSwapped(i, ctx) ==
    \/ i.a0 # ctx.intraBlockIndices[4][1]
    \/ i.c1 # ctx.intraBlockIndices[3][1]
    \/ BelowCutoff(i.amplitude)

(* lines 135-139: the incoming amplitude is skipped *)
SkipIncomming(i, ctx) ==
    \/ i.a1 # ctx.intraBlockIndices[4][1]
    \/ i.c0 # ctx.intraBlockIndices[3][1]
    \/ BelowCutoff(i.amplitude)

(* lines 143-181: the loop over uRight, from position out *)
RECURSIVE OutLoop(_, _, _, _)
OutLoop(vertex, out, i, ctx) ==
    IF out > Len(ctx.uRight) THEN vertex
    ELSE LET o == ctx.uRight[out]
         IN  IF SkipOutgoing(o, ctx)
             THEN OutLoop(vertex, out + 1, i, ctx)
             ELSE OutLoop(AddContribution(vertex, i.amplitude, o.amplitude,
                                          GetOffset(ctx.susceptibility, ctx.kIndex,
                                                    o.c0, o.a1, i.c1, i.a0),
                                          ctx),
                          out + 1, i, ctx)

(* lines 127-182: the loop over uLeft, from position in *)
RECURSIVE InLoop(_, _, _)
InLoop(vertex, in, ctx) ==
    IF in > Len(ctx.uLeft) THEN vertex
    ELSE LET i == ctx.uLeft[in]
         IN  IF SkipIncomming(i, ctx)
             THEN InLoop(vertex, in + 1, ctx)
             ELSE InLoop(OutLoop(vertex, 1, i, ctx), in + 1, ctx)

(* mutant: the last four components may hold more than one subindex *)
ComponentsAcceptedAtLeastOne(components) ==
    /\ Len(components) = 5
    /\ \A m \in 2..5 : Len(components[m]) >= 1

(* lines 96-125: the two assertions on the split Index *)
ComponentsAccepted(components) ==
    /\ Len(components) = 5
    /\ \A m \in 2..5 : Len(components[m]) = 1

(* lines 95-183, in doubles with a significand of bits bits *)
MainAlgorithm(vertex, idx, sus, uLeft, uRight, mult, bits) ==
    LET components == Split(idx)
    IN  IF Len(components) # 5
        THEN [state |-> "assert_components", vertex |-> vertex]
        ELSE IF ~ComponentsAccepted(components)
        THEN [state |-> "assert_subindex", vertex |-> vertex]
        ELSE [state |-> "returned",
              vertex |-> InLoop(vertex, 1,
                                [kIndex |-> components[1],
                                 intraBlockIndices |-> SubSeq(components, 2, 5),
                                 susceptibility |-> sus,
                                 uLeft |-> uLeft,
                                 uRight |-> uRight,
                                 multiplier |-> mult,
                                 bits |-> bits])]

(* mutant: every energy type but Real counts the Matsubara energies *)
KnownEnergyTypeAny(sus) == TRUE

(* lines 48-63: the cases of the switch that do not exit *)
KnownEnergyType(sus) == sus.energyType \in {"Real", "BosonicMatsubara"}

(* lines 47-56 *)
NumEnergies(sus) ==
    IF sus.energyType = "Real" THEN sus.resolution ELSE sus.numMatsubaraEnergies

(* calculateSelfEnergyVertex(), lines 47-73: the switch on the energy type *)
(* and the vector of numEnergies zeros                                     *)
CalculateSelfEnergyVertex ==
    /\ vertexState = "called"
    /\ IF KnownEnergyType(susceptibility)
       THEN /\ selfEnergyVertex' = [m \in 1..NumEnergies(susceptibility) |-> CZero]
            /\ vertexState' = "main"
       ELSE /\ selfEnergyVertex' = selfEnergyVertex
            /\ vertexState' = "exit_energy_type"
    /\ UNCHANGED <<index, susceptibility, leftInteraction, rightInteraction, multiplier,
                   significandBits>>
    /\ UNCHANGED nonVertexVars

(* lines 75-84: calculateSelfEnergyVertexMainAlgorithm() and the return *)
CalculateSelfEnergyVertexMainAlgorithm ==
    /\ vertexState = "main"
    /\ LET r == MainAlgorithm(selfEnergyVertex, index, susceptibility,
                              leftInteraction, rightInteraction, multiplier,
                              significandBits)
       IN  /\ selfEnergyVertex' = r.vertex
           /\ vertexState' = r.state
    /\ UNCHANGED <<index, susceptibility, leftInteraction, rightInteraction, multiplier,
                   significandBits>>
    /\ UNCHANGED nonVertexVars

(***************************************************************************)
(* The inputs of the vertex calculation.                                   *)
(***************************************************************************)
ComponentPool == {<<>>, <<0>>, <<1>>, <<0, 1>>}

RECURSIVE SeqsUpTo(_, _)
SeqsUpTo(S, len) ==
    IF len = 0 THEN {<<>>}
    ELSE LET shorter == SeqsUpTo(S, len - 1)
         IN  shorter \cup {Append(q, x) : q \in {r \in shorter : Len(r) = len - 1}, x \in S}

\* Indices of any shape
ShapeIndices == {Compound(cs) : cs \in SeqsUpTo(ComponentPool, MaxComponents)}

\* Indices of the shape (k, b1, b2, b3, b4)
VertexIndices ==
    {Compound(<<k, <<b1>>, <<b2>>, <<b3>>, <<b4>> >>) :
        k \in {<<1>>, <<0, 1>>}, b1 \in Orbitals, b2 \in Orbitals, b3 \in Orbitals, b4 \in Orbitals}

InteractionAmplitude(amplitude, c0, c1, a0, a1) ==
    [amplitude |-> amplitude, c0 |-> c0, c1 |-> c1, a0 |-> a0, a1 |-> a1]

\* the amplitudes the lists are made of: one of magnitude exactly the cutoff,
\* two above it, one below it
InteractionAmplitudes ==
    { InteractionAmplitude(<<Cutoff, 0>>, 0, 0, 0, 0),
      InteractionAmplitude(<<0, -3>>, 1, 0, 0, 1),
      InteractionAmplitude(<<1, 2>>, 1, 1, 1, 0),
      InteractionAmplitude(<<1, 1>>, 0, 1, 1, 0) }

InteractionLists == SeqsUpTo(InteractionAmplitudes, MaxAmplitudes)

Susceptibilities ==
    {[energyType |-> e, resolution |-> Resolution,
      numMatsubaraEnergies |-> NumMatsubaraEnergies] : e \in EnergyTypes}

\* no call was made on the property extractor
NoRequest == [op |-> "none"]

NoContainer == [kind |-> "none"]

ExtractorIdle ==
    /\ eigenValues = <<>>
    /\ eigenVectors = <<>>
    /\ indexSpace = <<>>
    /\ request = NoRequest
    /\ container = NoContainer

\* nullptr, as an owner and as a callback
Nullptr == 0

NoCall == [op |-> "none", owner |-> Nullptr, lambda |-> Nullptr, returned |-> FALSE]

\* the EventHandler before any call: unlocked, no owner, no callback
HandlerIdle ==
    /\ isLocked = FALSE
    /\ owner = Nullptr
    /\ lambdaOnMouseChange = Nullptr
    /\ handlerCall = NoCall

VertexIdle ==
    /\ index = <<>>
    /\ susceptibility = [energyType |-> "Real", resolution |-> Resolution,
                         numMatsubaraEnergies |-> NumMatsubaraEnergies]
    /\ leftInteraction = <<>>
    /\ rightInteraction = <<>>
    /\ multiplier = 1
    /\ selfEnergyVertex = <<>>
    /\ vertexState = "idle"
    /\ significandBits = DoubleSignificandBits

PoolIdle ==
    /\ numDevices = 0
    /\ busyDevices = <<>>
    /\ busyDevicesLock = NoThread
    /\ pc = [t \in Threads |-> "idle"]
    /\ n = [t \in Threads |-> 0]
    /\ device = [t \in Threads |-> 0]
    /\ done = [t \in Threads |-> FALSE]
    /\ lease = [t \in Threads |-> NoDevice]
    /\ failed = [t \in Threads |-> FALSE]

\* a solver with its susceptibility, interactions and multiplier set, and a
\* call calculateSelfEnergyVertex(index): either an Index of the vertex shape
\* with any interactions, or an Index of any shape with few interactions
InitVertex ==
    /\ susceptibility \in Susceptibilities
    /\ \/ /\ index \in VertexIndices
          /\ KnownEnergyType(susceptibility)
          /\ multiplier \in {-1, 2}
          /\ leftInteraction \in InteractionLists
          /\ rightInteraction \in InteractionLists
          /\ Len(leftInteraction) + Len(rightInteraction) <= MaxAmplitudes
       \/ /\ index \in ShapeIndices
          /\ multiplier = 2
          /\ leftInteraction \in SeqsUpTo({InteractionAmplitude(<<Cutoff, 0>>, 0, 0, 0, 0)}, 1)
          /\ rightInteraction = leftInteraction
    /\ selfEnergyVertex = <<>>
    /\ vertexState = "called"
    /\ significandBits = DoubleSignificandBits

VertexInit == InitVertex /\ PoolIdle /\ ExtractorIdle /\ HandlerIdle

VertexNext ==
    \/ CalculateSelfEnergyVertex
    \/ CalculateSelfEnergyVertexMainAlgorithm

VertexSpec == VertexInit /\ [][VertexNext]_vars

\* the amplitudes of the reordered lists: the first three meet the same
\* legs, one at the cutoff, one far above it and one below it
ReorderAmplitudes ==
    { InteractionAmplitude(<<Cutoff, 0>>, 0, 0, 0, 0),
      InteractionAmplitude(<<16, 0>>, 0, 0, 0, 0),
      InteractionAmplitude(<<1, 1>>, 0, 0, 0, 0),
      InteractionAmplitude(<<0, -3>>, 1, 0, 0, 1) }

\* the same call on doubles with a significand of NarrowSignificandBits
\* bits, with one list of up to MaxAmplitudes amplitudes and the other of
\* at most one
InitReorder ==
    /\ susceptibility \in Susceptibilities
    /\ KnownEnergyType(susceptibility)
    /\ index \in {idx \in VertexIndices : Len(idx) = 9}
    /\ multiplier = 2
    /\ leftInteraction \in SeqsUpTo(ReorderAmplitudes, MaxAmplitudes)
    /\ rightInteraction \in SeqsUpTo(ReorderAmplitudes, MaxAmplitudes)
    /\ Len(leftInteraction) <= 1 \/ Len(rightInteraction) <= 1
    /\ selfEnergyVertex = <<>>
    /\ vertexState = "called"
    /\ significandBits = NarrowSignificandBits

ReorderInit == InitReorder /\ PoolIdle /\ ExtractorIdle /\ HandlerIdle

ReorderSpec == ReorderInit /\ [][VertexNext]_vars

Init == InitPool /\ VertexIdle /\ ExtractorIdle /\ HandlerIdle

Spec == Init /\ [][Next]_vars

(***************************************************************************)
(* Fair scheduling: a thread inside allocateDevice() or freeDevice() keeps *)
(* running (Running), and the lock is fair: a thread that asks for it      *)
(* again and again gets it (Locking). Callers need not call, and sections  *)
(* need not end. The liveness runs let the first NumLiveThreads threads    *)
(* act.                                                                    *)
(***************************************************************************)
LiveThreads == 1..NumLiveThreads

Running(t) ==
    \/ AllocTest(t)
    \/ AllocTake(t)
    \/ AllocUnsetLock(t)
    \/ AllocReturn(t)
    \/ FreeWrite(t)
    \/ FreeUnsetLock(t)

Locking(t) ==
    \/ AllocSetLock(t)
    \/ FreeSetLock(t)

Fairness == \A t \in LiveThreads : WF_vars(Running(t)) /\ SF_vars(Locking(t))

FairNext == \E t \in LiveThreads : ThreadStep(t)

FairSpec == Init /\ [][FairNext]_vars /\ Fairness

(***************************************************************************)
(* PropertyExtractor::Diagonalizer on a Solver::Diagonalizer (dSolver).    *)
(*                                                                         *)
(* An Index of the Model is <<x, s>>: a site and a spin. The solver holds  *)
(* as many eigenstates as the Model has Indices. One call is made on the   *)
(* extractor; request records it and container what it returned.           *)
(***************************************************************************)
Spins == {0, 1}

FullSpace(sites) == {<<x, s>> : x \in 0..(sites - 1), s \in Spins}

IndexLess(a, b) == a[1] < b[1] \/ (a[1] = b[1] /\ a[2] < b[2])

\* the Indices of S in the order of the Model
RECURSIVE Canonical(_)
Canonical(S) ==
    IF S = {} THEN <<>>
    ELSE LET least == CHOOSE a \in S : \A b \in S \ {a} : IndexLess(a, b)
         IN  <<least>> \o Canonical(S \ {least})

\* Models of one to MaxSites sites with both spins, and one without the
\* Index <<0, 1>>
IndexSpaces ==
    {Canonical(FullSpace(k)) : k \in 1..MaxSites}
        \cup {Canonical(FullSpace(MaxSites) \ {<<0, 1>>})}

Range(s) == {s[m] : m \in 1..Len(s)}

\* ascending eigenvalues, without and with degenerate ones
Spectra(N) == {[m \in 1..N |-> m - 2], [m \in 1..N |-> m \div 3]}

\* the eigenvectors: an amplitude for every state and Index
EigenVectorTables(space) ==
    {[p \in (0..(Len(space) - 1)) \X Range(space) |->
         <<((seed + p[1] + 2 * p[2][1] + p[2][2]) % 3) - 1,
           (seed * p[1] + p[2][1]) % 2>>] :
        seed \in 0..(NumEigenVectorTables - 1)}

InitExtractor ==
    /\ indexSpace \in IndexSpaces
    /\ eigenValues \in Spectra(Len(indexSpace))
    /\ eigenVectors \in EigenVectorTables(indexSpace)
    /\ request = NoRequest
    /\ container = NoContainer

\* a call that failed: the program is aborted with a diagnostic
Failed == [kind |-> "failed"]

\* dSolver->getEigenValue(state)
SolverGetEigenValue(state) ==
    IF 0 <= state /\ state < Len(eigenValues)
    THEN [kind |-> "value", value |-> eigenValues[state + 1]]
    ELSE Failed

\* dSolver->getAmplitude(state, index)
SolverGetAmplitude(state, idx) ==
    IF 0 <= state /\ state < Len(eigenValues) /\ idx \in Range(indexSpace)
    THEN [kind |-> "value", value |-> eigenVectors[<<state, idx>>]]
    ELSE Failed

(* mutant: the state is clamped into the range of the eigenvalues *)
ExtractorGetEigenValueClamped(state) ==
    SolverGetEigenValue(IF state < 0 THEN 0
                        ELSE IF state >= Len(eigenValues) THEN Len(eigenValues) - 1
                        ELSE state)

(* Diagonalizer.h lines 246-248 *)
ExtractorGetEigenValue(state) == SolverGetEigenValue(state)

(* Diagonalizer.h lines 250-255 *)
ExtractorGetAmplitude(state, idx) == SolverGetAmplitude(state, idx)

\* the call getEigenValue(state)
GetEigenValue ==
    /\ request = NoRequest
    /\ \E state \in (-1)..Len(eigenValues) :
          /\ request' = [op |-> "getEigenValue", state |-> state]
          /\ container' = ExtractorGetEigenValue(state)
    /\ UNCHANGED <<eigenValues, eigenVectors, indexSpace>>
    /\ UNCHANGED nonExtractorVars

(***************************************************************************)
(* Patterns. A subindex of a pattern is a value or one of the markers:     *)
(* IDX_ALL (one entry per value), IDX_SUM_ALL (the values are summed into  *)
(* one entry), IDX_SPIN (the spin subindex of a spin-resolved property),   *)
(* IDX_X and IDX_Y (the axes of a pattern that comes with ranges).         *)
(***************************************************************************)
IDX_ALL == -2

IDX_SUM_ALL == -3

IDX_SPIN == -4

IDX_X == -5

IDX_Y == -6

Wildcards == {IDX_ALL, IDX_SUM_ALL, IDX_SPIN}

\* the pattern has the arity of the Indices of the Model
ArityAccepted(pattern) == \E idx \in Range(indexSpace) : Len(idx) = Len(pattern)

Matches(pattern, idx) ==
    /\ Len(pattern) = Len(idx)
    /\ \A m \in 1..Len(idx) : pattern[m] \in Wildcards \/ pattern[m] = idx[m]

\* the Indices of the Model that some pattern matches, each once, in the
\* order of the Model
Matched(patterns) ==
    SelectSeq(indexSpace, LAMBDA idx : \E m \in 1..Len(patterns) : Matches(patterns[m], idx))

(***************************************************************************)
(* calculateWaveFunctions(patterns, states), Diagonalizer.h lines 97-113,  *)
(* and its callback, lines 190-197.                                        *)
(***************************************************************************)
AllStates == [m \in 1..Len(eigenValues) |-> m - 1]

\* {IDX_ALL} stands for every state
RequestedStates(states) ==
    IF states = <<IDX_ALL>> THEN AllStates ELSE states

(* mutant: the callback stores the amplitudes of the first state only *)
CalculateWaveFunctionsCallbackFirstState(data, states, idx, offset) ==
    [m \in 1..Len(data) |->
        IF offset < m /\ m <= offset + Len(states)
        THEN ExtractorGetAmplitude(states[1], idx).value
        ELSE data[m]]

\* the callback stores getAmplitude(state, index) for every requested state
\* at the offset of the Index
CalculateWaveFunctionsCallback(data, states, idx, offset) ==
    [m \in 1..Len(data) |->
        IF offset < m /\ m <= offset + Len(states)
        THEN ExtractorGetAmplitude(states[m - offset], idx).value
        ELSE data[m]]

\* the traversal of the matched Indices from position on
RECURSIVE TraverseWaveFunctions(_, _, _, _)
TraverseWaveFunctions(data, states, matched, position) ==
    IF position > Len(matched) THEN data
    ELSE TraverseWaveFunctions(
             CalculateWaveFunctionsCallback(data, states, matched[position],
                                            (position - 1) * Len(states)),
             states, matched, position + 1)

CalculateWaveFunctionsOf(patterns, states) ==
    LET matched == Matched(patterns)
        requested == RequestedStates(states)
    IN  IF \E m \in 1..Len(patterns) : ~ArityAccepted(patterns[m])
        THEN Failed
        ELSE IF \E m \in 1..Len(requested) :
                   requested[m] < 0 \/ requested[m] >= Len(eigenValues)
        THEN Failed
        ELSE [kind |-> "waveFunctions",
              indices |-> matched,
              states |-> requested,
              data |-> TraverseWaveFunctions(
                           [m \in 1..(Len(matched) * Len(requested)) |-> CZero],
                           requested, matched, 1)]

\* patterns of concrete subindices and IDX_ALL, and one of another arity
WavePatterns ==
    {<<x, s>> : x \in (0..(MaxSites - 1)) \cup {IDX_ALL}, s \in Spins \cup {IDX_ALL}}
        \cup {<<IDX_ALL>>}

WavePatternLists ==
    {<<>>} \cup {<<p>> : p \in WavePatterns} \cup {<<p, q>> : p \in WavePatterns, q \in WavePatterns}

\* {IDX_ALL}, or one or two different states, which may be out of range
StateLists ==
    {<<IDX_ALL>>}
        \cup {<<a>> : a \in 0..Len(eigenValues)}
        \cup {q \in (0..Len(eigenValues)) \X (0..Len(eigenValues)) : q[1] # q[2]}

\* the call calculateWaveFunctions(patterns, states)
CalculateWaveFunctions ==
    /\ request = NoRequest
    /\ \E patterns \in WavePatternLists, states \in StateLists :
          /\ request' = [op |-> "calculateWaveFunctions", patterns |-> patterns,
                         states |-> states]
          /\ container' = CalculateWaveFunctionsOf(patterns, states)
    /\ UNCHANGED <<eigenValues, eigenVectors, indexSpace>>
    /\ UNCHANGED nonExtractorVars

(***************************************************************************)
(* The index-resolved properties, Diagonalizer.h lines 130-185, and their  *)
(* callbacks, lines 207-240. A value of a property has one complex number  *)
(* per component: per energy bin for LDOS and SpinPolarizedLDOS, per pair  *)
(* of spins for Magnetization and SpinPolarizedLDOS. Sums are in real      *)
(* numbers.                                                                *)
(***************************************************************************)
Properties == {"Density", "Magnetization", "LDOS", "SpinPolarizedLDOS"}

SpinResolved(property) == property \in {"Magnetization", "SpinPolarizedLDOS"}

EnergyResolved(property) == property \in {"LDOS", "SpinPolarizedLDOS"}

\* the energy bins: one per energy of the window
EnergyWindow == (-1)..1

Components(property) ==
    LET bins == IF EnergyResolved(property) THEN {<<b>> : b \in EnergyWindow} ELSE {<<>>}
        spins == IF SpinResolved(property)
                 THEN {<<s1, s2>> : s1 \in Spins, s2 \in Spins}
                 ELSE {<<>>}
    IN  {b \o sp : b \in bins, sp \in spins}

ZeroValue(property) == [c \in Components(property) |-> CZero]

AddValue(v, w) == [c \in DOMAIN v |-> CAdd(v[c], w[c])]

CConj(z) == <<z[1], -z[2]>>

\* the occupation of an eigenstate: chemical potential 0, temperature 0
Occupied(state) == eigenValues[state + 1] <= 0

\* what eigenstate state adds to component c at the Index idx: the weight
\* times |amplitude|^2, or the product of the amplitudes of the two spins
Term(property, state, idx, c) ==
    LET weight == IF EnergyResolved(property)
                  THEN (IF eigenValues[state + 1] = c[1] THEN 1 ELSE 0)
                  ELSE (IF Occupied(state) THEN 1 ELSE 0)
        spin == IF SpinResolved(property) THEN SubSeq(c, Len(c) - 1, Len(c))
                ELSE <<idx[2], idx[2]>>
    IN  CScale(CMul(eigenVectors[<<state, <<idx[1], spin[1]>> >>],
                    CConj(eigenVectors[<<state, <<idx[1], spin[2]>> >>])),
               weight)

RECURSIVE SumOverStates(_, _, _, _)
SumOverStates(property, idx, c, state) ==
    IF state >= Len(eigenValues) THEN CZero
    ELSE CAdd(Term(property, state, idx, c), SumOverStates(property, idx, c, state + 1))

\* the Indices whose amplitudes the callback reads when called with idx
ReadBy(property, idx) ==
    IF SpinResolved(property) THEN {<<idx[1], s>> : s \in Spins} ELSE {idx}

\* calculateDensityCallback, calculateMAGCallback, calculateLDOSCallback,
\* calculateSP_LDOSCallback: the value at the entry of idx grows by the sum
\* over the eigenstates
PropertyCallback(value, property, idx) ==
    [c \in Components(property) |-> CAdd(value[c], SumOverStates(property, idx, c, 0))]

\* the callback called once with every Index of calls, on one entry
RECURSIVE Accumulate(_, _, _)
Accumulate(value, property, calls) ==
    IF calls = {} THEN value
    ELSE LET idx == CHOOSE x \in calls : TRUE
         IN  Accumulate(PropertyCallback(value, property, idx), property, calls \ {idx})

\* the entry a matched Index goes to: summed subindices and the spin
\* subindex stay markers
Key(pattern, idx) ==
    [m \in 1..Len(idx) |->
        IF pattern[m] \in {IDX_SUM_ALL, IDX_SPIN} THEN pattern[m] ELSE idx[m]]

\* the Index the callback is called with: the spin subindex stays a marker
CallIndex(pattern, idx) ==
    [m \in 1..Len(idx) |-> IF pattern[m] = IDX_SPIN THEN IDX_SPIN ELSE idx[m]]

\* the calls of the traversal of a list of patterns: <<entry, Index>>, each once
CustomCalls(patterns) ==
    {<<Key(q[1], q[2]), CallIndex(q[1], q[2])>> :
        q \in {r \in Range(patterns) \X Range(indexSpace) : Matches(r[1], r[2])}}

\* the call shape with a list of patterns
CalculatePatternsOf(property, patterns) ==
    LET calls == CustomCalls(patterns)
    IN  IF \E q \in calls : ~(ReadBy(property, q[2]) \subseteq Range(indexSpace))
        THEN Failed
        ELSE [kind |-> "custom",
              values |-> [k \in {q[1] : q \in calls} |->
                             Accumulate(ZeroValue(property), property,
                                        {q[2] : q \in {r \in calls : r[1] = k}})]]

LoopMarkers == {IDX_X, IDX_Y, IDX_SUM_ALL}

(* mutant: the loops over the ranges start at 1 *)
LoopValuesFromOne(pattern, ranges, m) ==
    IF pattern[m] \in LoopMarkers THEN 1..(ranges[m] - 1) ELSE {pattern[m]}

\* the values subindex m takes in the loops over the ranges
LoopValues(pattern, ranges, m) ==
    IF pattern[m] \in LoopMarkers THEN 0..(ranges[m] - 1) ELSE {pattern[m]}

\* the Indices the loops over the ranges call the callback with
RangeCalls(pattern, ranges) ==
    {<<x, s>> : x \in LoopValues(pattern, ranges, 1), s \in LoopValues(pattern, ranges, 2)}

\* the coordinates of an Index on the axes IDX_X and IDX_Y
Coordinates(pattern, idx) ==
    (IF pattern[1] = IDX_X THEN <<idx[1]>> ELSE <<>>)
        \o (IF pattern[2] = IDX_Y THEN <<idx[2]>> ELSE <<>>)

\* the call shape with one pattern and ranges
CalculateRangesOf(property, pattern, ranges) ==
    LET calls == RangeCalls(pattern, ranges)
    IN  IF \E idx \in calls : ~(ReadBy(property, idx) \subseteq Range(indexSpace))
        THEN Failed
        ELSE [kind |-> "ranges",
              data |-> [k \in {Coordinates(pattern, idx) : idx \in calls} |->
                           Accumulate(ZeroValue(property), property,
                                      {idx \in calls : Coordinates(pattern, idx) = k})]]

SpinSubindices(property, markers) ==
    IF SpinResolved(property) THEN {IDX_SPIN} ELSE Spins \cup markers

RangesPatterns(property) ==
    {<<x, s>> : x \in (0..(MaxSites - 1)) \cup {IDX_X, IDX_SUM_ALL},
                s \in SpinSubindices(property, {IDX_Y, IDX_SUM_ALL})}

RangesOfPatterns == {<<rx, rs>> : rx \in 1..MaxSites, rs \in 1..Cardinality(Spins)}

CustomPatterns(property) ==
    {<<x, s>> : x \in (0..(MaxSites - 1)) \cup {IDX_ALL, IDX_SUM_ALL},
                s \in SpinSubindices(property, {IDX_ALL, IDX_SUM_ALL})}

CustomPatternLists(property) ==
    {<<p>> : p \in CustomPatterns(property)}
        \cup {<<p, q>> : p \in CustomPatterns(property), q \in CustomPatterns(property)}

\* the calls calculateDensity(pattern, ranges), calculateMagnetization(pattern,
\* ranges), calculateLDOS(pattern, ranges), calculateSpinPolarizedLDOS(pattern, ranges)
CalculatePropertyRanges ==
    /\ request = NoRequest
    /\ \E property \in Properties :
          \E pattern \in RangesPatterns(property), ranges \in RangesOfPatterns :
             /\ request' = [op |-> "calculateRanges", property |-> property,
                            pattern |-> pattern, ranges |-> ranges]
             /\ container' = CalculateRangesOf(property, pattern, ranges)
    /\ UNCHANGED <<eigenValues, eigenVectors, indexSpace>>
    /\ UNCHANGED nonExtractorVars

\* the calls calculateDensity(patterns), calculateMagnetization(patterns),
\* calculateLDOS(patterns), calculateSpinPolarizedLDOS(patterns)
CalculatePropertyPatterns ==
    /\ request = NoRequest
    /\ \E property \in Properties :
          \E patterns \in CustomPatternLists(property) :
             /\ request' = [op |-> "calculatePatterns", property |-> property,
                            patterns |-> patterns]
             /\ container' = CalculatePatternsOf(property, patterns)
    /\ UNCHANGED <<eigenValues, eigenVectors, indexSpace>>
    /\ UNCHANGED nonExtractorVars

ExtractorInit == InitExtractor /\ PoolIdle /\ VertexIdle /\ HandlerIdle

ExtractorNext ==
    \/ GetEigenValue
    \/ CalculateWaveFunctions
    \/ CalculatePropertyRanges
    \/ CalculatePropertyPatterns

ExtractorSpec == ExtractorInit /\ [][ExtractorNext]_vars

(***************************************************************************)
(* RayTracer::EventHandler, RayTracer.h lines 308-343 and 541-593. The     *)
(* RayTracers are 1..NumRayTracers and the callbacks 1..NumCallbacks;      *)
(* either argument may be nullptr. onMouseChange() with no callback exits  *)
(* the program.                                                            *)
(***************************************************************************)
RayTracers == 1..NumRayTracers

Callbacks == 1..NumCallbacks

(* lines 541-560: lock(owner, lambdaOnMouseChange) *)
LockOf(newOwner, lambda) ==
    IF isLocked
    THEN [isLocked |-> isLocked, owner |-> owner,
          lambdaOnMouseChange |-> lambdaOnMouseChange, returned |-> FALSE]
    ELSE [isLocked |-> TRUE, owner |-> newOwner,
          lambdaOnMouseChange |-> lambda, returned |-> TRUE]

(* mutant: unlock() asks whether the handler is locked, not by whom *)
UnlockOfAnyOwner(caller) ==
    IF isLocked
    THEN [isLocked |-> FALSE, owner |-> Nullptr,
          lambdaOnMouseChange |-> Nullptr, returned |-> TRUE]
    ELSE [isLocked |-> isLocked, owner |-> owner,
          lambdaOnMouseChange |-> lambdaOnMouseChange, returned |-> FALSE]

(* lines 562-572: unlock(owner) *)
UnlockOf(caller) ==
    IF owner = caller
    THEN [isLocked |-> FALSE, owner |-> Nullptr,
          lambdaOnMouseChange |-> Nullptr, returned |-> TRUE]
    ELSE [isLocked |-> isLocked, owner |-> owner,
          lambdaOnMouseChange |-> lambdaOnMouseChange, returned |-> FALSE]

\* the call lock(newOwner, lambda)
Lock ==
    /\ handlerCall.op # "exit"
    /\ \E newOwner \in RayTracers \cup {Nullptr}, lambda \in Callbacks \cup {Nullptr} :
          LET r == LockOf(newOwner, lambda)
          IN  /\ isLocked' = r.isLocked
              /\ owner' = r.owner
              /\ lambdaOnMouseChange' = r.lambdaOnMouseChange
              /\ handlerCall' = [op |-> "lock", owner |-> newOwner, lambda |-> lambda,
                                 returned |-> r.returned]
    /\ UNCHANGED nonHandlerVars

\* the call unlock(caller)
Unlock ==
    /\ handlerCall.op # "exit"
    /\ \E caller \in RayTracers \cup {Nullptr} :
          LET r == UnlockOf(caller)
          IN  /\ isLocked' = r.isLocked
              /\ owner' = r.owner
              /\ lambdaOnMouseChange' = r.lambdaOnMouseChange
              /\ handlerCall' = [op |-> "unlock", owner |-> caller, lambda |-> Nullptr,
                                 returned |-> r.returned]
    /\ UNCHANGED nonHandlerVars

(* lines 574-593: onMouseChange() calls the callback, or exits without one *)
OnMouseChange ==
    /\ handlerCall.op # "exit"
    /\ handlerCall' = [op |-> IF lambdaOnMouseChange # Nullptr THEN "onMouseChange" ELSE "exit",
                       owner |-> owner, lambda |-> lambdaOnMouseChange, returned |-> FALSE]
    /\ UNCHANGED <<isLocked, owner, lambdaOnMouseChange>>
    /\ UNCHANGED nonHandlerVars

HandlerInit == HandlerIdle /\ PoolIdle /\ VertexIdle /\ ExtractorIdle

HandlerNext ==
    \/ Lock
    \/ Unlock
    \/ OnMouseChange

HandlerSpec == HandlerInit /\ [][HandlerNext]_vars

(***************************************************************************)
(* Vocabulary of the pool claims.                                          *)
(***************************************************************************)
\* the device thread t holds: from the setting of the flag (line 46) until
\* the caller passes the id to freeDevice()
Holds(t) ==
    IF lease[t] # NoDevice THEN lease[t]
    ELSE IF done[t] THEN device[t]
    ELSE NoDevice

AllBusy == numDevices > 0 /\ \A d \in Devices : busyDevices[d]

SomeFree == \E d \in Devices : ~busyDevices[d]

\* t is inside the loop of allocateDevice() and has not found a device
Pending(t) ==
    /\ pc[t] \in {"alloc_set_lock", "alloc_test", "alloc_take", "alloc_unset_lock"}
    /\ ~done[t]

\* t is inside the lock-held section of allocateDevice() or freeDevice()
InLockedSection(t) ==
    pc[t] \in {"alloc_test", "alloc_take", "alloc_unset_lock", "free_write", "free_unset_lock"}

\* t is answerable for one set flag: it set it and has not yet cleared it
Owes(t) ==
    \/ done[t]
    \/ lease[t] # NoDevice
    \/ pc[t] \in {"free_set_lock", "free_write"}

(***************************************************************************)
(* C1: no two callers ever hold the same device id at the same time, and   *)
(* every id a caller holds is in [0, numDevices); so when numDevices       *)
(* callers hold a device, their ids are pairwise distinct.                 *)
(***************************************************************************)
C1_NoDoubleAllocation ==
    /\ \A t \in Threads : Holds(t) # NoDevice => Holds(t) \in Devices
    /\ \A t1, t2 \in Threads :
           (t1 # t2 /\ Holds(t1) # NoDevice) => Holds(t1) # Holds(t2)

\* K = numDevices >= 2 callers hold a lease at the same time, one per device
C1_Witness ==
    /\ numDevices >= 2
    /\ \A d \in Devices : \E t \in Threads : lease[t] = d

(***************************************************************************)
(* C2: while every device is busy, a thread polling in allocateDevice()    *)
(* neither returns nor fails: every step from an all-busy state leaves it  *)
(* polling; and a flag is cleared by line 63 of freeDevice() only.         *)
(***************************************************************************)
C2_BlocksWhileAllBusy ==
    [][ /\ \A t \in Threads :
             (Pending(t) /\ AllBusy) => (Pending(t)' /\ lease'[t] = NoDevice)
        /\ \A d \in Devices :
             (busyDevices[d] /\ ~busyDevices'[d]) =>
                 \E t \in Threads : /\ pc[t] = "free_write"
                                    /\ pc'[t] = "free_unset_lock"
                                    /\ device[t] = d
      ]_vars

\* a thread has finished a scan that found every device busy
C2_Witness ==
    \E t \in Threads :
        /\ AllBusy
        /\ pc[t] = "alloc_unset_lock"
        /\ ~done[t]
        /\ n[t] = numDevices

(***************************************************************************)
(* C3: under fair scheduling, a pending allocateDevice() for which some    *)
(* device is free from some time on eventually finds a device; the flag of *)
(* the device it takes was clear before the step that set it and is set    *)
(* when the call returns.                                                  *)
(***************************************************************************)
C3_AllocateEventuallyReturns ==
    /\ \A t \in Threads :
           (<>[](Pending(t) => SomeFree)) => (Pending(t) ~> (pc[t] = "alloc_return"))
    /\ [][ \A t \in Threads :
             (~done[t] /\ done'[t]) =>
                 /\ device'[t] \in Devices
                 /\ ~busyDevices[device'[t]]
                 /\ busyDevices'[device'[t]]
        ]_vars
    /\ [](\A t \in Threads :
             pc[t] = "alloc_return" => (device[t] \in Devices /\ busyDevices[device[t]]))

\* a pending call has scanned past a busy device, taken a free one and is
\* about to return it
C3_Witness ==
    \E t, u \in Threads :
        /\ pc[t] = "alloc_return"
        /\ device[t] > 0
        /\ busyDevices[device[t]]
        /\ u # t
        /\ lease[u] = 0

(***************************************************************************)
(* C4: busyDevices is read and written only by the thread that holds       *)
(* busyDevicesLock: a thread in the scan of allocateDevice() or at the     *)
(* write of freeDevice() owns the lock, and every step that changes        *)
(* busyDevices is a step of the owner of the lock.                         *)
(***************************************************************************)
C4_FlagsChangeUnderLock ==
    /\ [](\A t \in Threads : InLockedSection(t) => busyDevicesLock = t)
    /\ [][ busyDevices' # busyDevices =>
             \E t \in Threads : /\ busyDevicesLock = t
                                /\ pc[t] \in {"alloc_take", "free_write"}
                                /\ pc'[t] # pc[t]
        ]_vars

\* a thread is about to clear a flag while another one waits for the lock
C4_Witness ==
    \E t, u \in Threads :
        /\ pc[t] = "free_write"
        /\ busyDevicesLock = t
        /\ pc[u] = "alloc_set_lock"

(***************************************************************************)
(* C5: freeDevice(id) clears the flag of id and changes no other flag and  *)
(* not numDevices; when it returns the flag of id is clear.                *)
(***************************************************************************)
C5_FreeClearsOnlyItsFlag ==
    [][ \A t \in Threads :
          /\ (pc[t] = "free_write" /\ pc'[t] # pc[t]) =>
                 /\ busyDevices' = [busyDevices EXCEPT ![device[t]] = FALSE]
                 /\ numDevices' = numDevices
          /\ (pc[t] \in {"free_set_lock", "free_unset_lock"} /\ pc'[t] # pc[t]) =>
                 /\ busyDevices' = busyDevices
                 /\ numDevices' = numDevices
          /\ (pc[t] = "free_unset_lock" /\ pc'[t] # pc[t]) =>
                 ~busyDevices'[device[t]]
      ]_vars

\* freeDevice(id) has cleared the flag of id while another device is busy
C5_Witness ==
    \E t \in Threads :
        /\ pc[t] = "free_unset_lock"
        /\ ~busyDevices[device[t]]
        /\ \E d \in Devices : d # device[t] /\ busyDevices[d]

(***************************************************************************)
(* C6: with numDevices = 0, allocateDevice() fails before it takes the     *)
(* lock: no thread gets past the assertion, no id is returned, the lock is *)
(* never taken and there is no flag to touch.                              *)
(***************************************************************************)
C6_ZeroPoolFailsFatally ==
    numDevices = 0 =>
        /\ \A t \in Threads : /\ pc[t] \in {"idle", "fatal"}
                              /\ lease[t] = NoDevice
                              /\ ~done[t]
        /\ busyDevicesLock = NoThread
        /\ DOMAIN busyDevices = {}

\* a call on the empty pool has failed
C6_Witness ==
    /\ numDevices = 0
    /\ \E t \in Threads : pc[t] = "fatal"

(***************************************************************************)
(* C7: a lease is released on every exit path of the section holding it:   *)
(* a caller outside its section holds nothing, every set flag belongs to a *)
(* caller that is still inside, and a failure propagates only after        *)
(* freeDevice(id) has cleared the flag.                                    *)
(***************************************************************************)
C7_LeaseReleasedOnEveryExit ==
    /\ \A t \in Threads :
           pc[t] \in {"idle", "propagate", "exited", "fatal"} => ~Owes(t)
    /\ Cardinality({d \in Devices : busyDevices[d]})
           = Cardinality({t \in Threads : Owes(t)})

\* a caller whose section failed has exited while another one holds a device
C7_Witness ==
    \E t, u \in Threads :
        /\ pc[t] = "exited"
        /\ failed[t]
        /\ pc[u] = "section"
        /\ \A d \in Devices : busyDevices[d] <=> lease[u] = d

(***************************************************************************)
(* Vocabulary of the vertex claims, stated on the Index itself.            *)
(***************************************************************************)
NumSeparators(idx) == Cardinality({m \in 1..Len(idx) : idx[m] = IDX_SEPARATOR})

\* the Index is (k, b1, b2, b3, b4): its separators are exactly the four in
\* front of its last four single subindices
VertexShape(idx) ==
    LET len == Len(idx)
    IN  /\ len >= 8
        /\ \A m \in 1..len :
               idx[m] = IDX_SEPARATOR <=> m \in {len - 7, len - 5, len - 3, len - 1}

BlockIndex(idx, m) == idx[Len(idx) - 2 * (4 - m)]

KIndex(idx) == SubSeq(idx, 1, Len(idx) - 8)

\* the pairs (position in uLeft, position in uRight) whose legs match the
\* Index and whose amplitudes are not below the cutoff
QualifyingPairs ==
    {p \in (1..Len(leftInteraction)) \X (1..Len(rightInteraction)) :
        LET i == leftInteraction[p[1]]
            o == rightInteraction[p[2]]
        IN  /\ i.a1 = BlockIndex(index, 4)
            /\ i.c0 = BlockIndex(index, 3)
            /\ o.a0 = BlockIndex(index, 1)
            /\ o.c1 = BlockIndex(index, 2)
            /\ i.amplitude[1] * i.amplitude[1] + i.amplitude[2] * i.amplitude[2]
                   >= Cutoff * Cutoff
            /\ o.amplitude[1] * o.amplitude[1] + o.amplitude[2] * o.amplitude[2]
                   >= Cutoff * Cutoff}

\* amplitude_i * amplitude_o * susceptibilityData[offset + m] * multiplier
PairTerm(p, m) ==
    LET i == leftInteraction[p[1]]
        o == rightInteraction[p[2]]
        offset == GetOffset(susceptibility, KIndex(index), o.c0, o.a1, i.c1, i.a0)
    IN  CScale(CMul(CMul(i.amplitude, o.amplitude),
                    SusceptibilityData(susceptibility, offset + m)),
               multiplier)

RECURSIVE SumOfPairs(_, _)
SumOfPairs(P, m) ==
    IF P = {} THEN CZero
    ELSE LET p == CHOOSE x \in P : TRUE
         IN  CAdd(PairTerm(p, m), SumOfPairs(P \ {p}, m))

(***************************************************************************)
(* C8: the calculation returns only for an Index of the shape              *)
(* (k, b1, b2, b3, b4), k of any size; an Index that does not split into 5 *)
(* components is rejected by the first assertion, and one with 5           *)
(* components of which one of the last four has not exactly one subindex   *)
(* by the second.                                                          *)
(***************************************************************************)
C8_IndexShapeRejected ==
    /\ vertexState = "returned" => VertexShape(index)
    /\ vertexState = "assert_components" => NumSeparators(index) # 4
    /\ vertexState = "assert_subindex" =>
           (NumSeparators(index) = 4 /\ ~VertexShape(index))

\* an Index of 5 components, one of the last four with two subindices, has
\* been rejected
C8_Witness ==
    /\ vertexState = "assert_subindex"
    /\ Len(index) > 9

(***************************************************************************)
(* C9: the calculation exits, without a vector, exactly when the energy    *)
(* type is neither Real nor BosonicMatsubara, whatever the shape of the    *)
(* Index; otherwise the vector has getResolution() entries for Real and    *)
(* getNumMatsubaraEnergies() entries for BosonicMatsubara.                 *)
(***************************************************************************)
C9_UnknownEnergyTypeExits ==
    /\ vertexState # "called" =>
           (vertexState = "exit_energy_type"
               <=> susceptibility.energyType \notin {"Real", "BosonicMatsubara"})
    /\ vertexState = "exit_energy_type" => selfEnergyVertex = <<>>
    /\ (vertexState \in {"main", "returned"} /\ susceptibility.energyType = "Real") =>
           Len(selfEnergyVertex) = susceptibility.resolution
    /\ (vertexState \in {"main", "returned"}
            /\ susceptibility.energyType = "BosonicMatsubara") =>
           Len(selfEnergyVertex) = susceptibility.numMatsubaraEnergies

\* the call has exited on the energy type although the Index is malformed too
C9_Witness ==
    /\ vertexState = "exit_energy_type"
    /\ ~VertexShape(index)
    /\ NumSeparators(index) = 4

(***************************************************************************)
(* C10: for an Index (k, b1, b2, b3, b4), entry n of the result is the sum *)
(* over the qualifying pairs of                                            *)
(* amplitude_i * amplitude_o * susceptibilityData[offset + n] * multiplier;*)
(* with no qualifying pair it is 0.                                        *)
(***************************************************************************)
C10_VertexIsSumOverPairs ==
    vertexState = "returned" =>
        \A m \in 1..Len(selfEnergyVertex) :
            selfEnergyVertex[m] = SumOfPairs(QualifyingPairs, m - 1)

\* a result with more than one energy and two qualifying pairs, next to
\* pairs that do not qualify
C10_Witness ==
    /\ vertexState = "returned"
    /\ Len(selfEnergyVertex) > 1
    /\ Cardinality(QualifyingPairs) = 2
    /\ Len(leftInteraction) + Len(rightInteraction) = 3
    /\ selfEnergyVertex[1] # CZero

(***************************************************************************)
(* Reordering of the interaction lists.                                    *)
(***************************************************************************)
\* the lists with the elements of s in any order
Reorderings(s) == {[m \in 1..Len(s) |-> s[f[m]]] : f \in Permutations(1..Len(s))}

\* the vector the call returns for the Index idx and the lists uLeft and
\* uRight, in doubles with a significand of bits bits (0: in real numbers)
VertexOf(idx, uLeft, uRight, bits) ==
    MainAlgorithm([m \in 1..NumEnergies(susceptibility) |-> CZero], idx, susceptibility,
                  uLeft, uRight, multiplier, bits).vertex

\* the qualifying amplitudes of the two lists, as positions
QualifyingLeft == {p[1] : p \in QualifyingPairs}

QualifyingRight == {p[2] : p \in QualifyingPairs}

MagnitudeSquared(z) == z[1] * z[1] + z[2] * z[2]

\* the list s without its amplitudes of magnitude below the cutoff
WithoutBelowCutoff(s) ==
    SelectSeq(s, LAMBDA u : MagnitudeSquared(u.amplitude) >= Cutoff * Cutoff)

\* the pairs whose legs match the Index, whatever their magnitudes
MatchingPairs ==
    {p \in (1..Len(leftInteraction)) \X (1..Len(rightInteraction)) :
        /\ leftInteraction[p[1]].a1 = BlockIndex(index, 4)
        /\ leftInteraction[p[1]].c0 = BlockIndex(index, 3)
        /\ rightInteraction[p[2]].a0 = BlockIndex(index, 1)
        /\ rightInteraction[p[2]].c1 = BlockIndex(index, 2)}

\* the pairs with an amplitude of magnitude exactly the cutoff and none below it
AtCutoffPairs ==
    {p \in MatchingPairs :
        LET i == MagnitudeSquared(leftInteraction[p[1]].amplitude)
            o == MagnitudeSquared(rightInteraction[p[2]].amplitude)
        IN  /\ i >= Cutoff * Cutoff
            /\ o >= Cutoff * Cutoff
            /\ i = Cutoff * Cutoff \/ o = Cutoff * Cutoff}

(* C12: the amplitudes of magnitude below 1e-10 contribute to no entry:    *)
(* the call on the lists without them returns the same vector. An          *)
(* amplitude of magnitude exactly 1e-10 is not skipped: when the only      *)
(* pair with matching legs and no magnitude below the cutoff has such an   *)
(* amplitude, the vector holds the term of that pair.                      *)
C12_BelowCutoffContributesNothing ==
    vertexState = "returned" =>
        /\ VertexOf(index, WithoutBelowCutoff(leftInteraction),
                    WithoutBelowCutoff(rightInteraction), significandBits)
             = selfEnergyVertex
        /\ \A p \in AtCutoffPairs :
               {q \in MatchingPairs :
                   /\ MagnitudeSquared(leftInteraction[q[1]].amplitude) >= Cutoff * Cutoff
                   /\ MagnitudeSquared(rightInteraction[q[2]].amplitude) >= Cutoff * Cutoff}
                 = {p}
               => \A m \in 1..Len(selfEnergyVertex) :
                      /\ selfEnergyVertex[m] = PairTerm(p, m - 1)
                      /\ selfEnergyVertex[m] # CZero

\* a pair with matching legs was skipped for a magnitude below the cutoff,
\* and the one pair that was accumulated has an amplitude at the cutoff
C12_Witness ==
    /\ vertexState = "returned"
    /\ \E q \in MatchingPairs :
          \/ MagnitudeSquared(leftInteraction[q[1]].amplitude) < Cutoff * Cutoff
          \/ MagnitudeSquared(rightInteraction[q[2]].amplitude) < Cutoff * Cutoff
    /\ \E p \in AtCutoffPairs : QualifyingPairs = {p}
    /\ \E m \in 1..Len(selfEnergyVertex) : selfEnergyVertex[m] # CZero

(***************************************************************************)
(* Claims on PropertyExtractor::Diagonalizer.                              *)
(***************************************************************************)
\* the eigenvalues are in ascending order
Ascending(values) == \A i, j \in 1..Len(values) : i < j => values[i] <= values[j]

(* C13: getEigenValue(state) returns the eigenvalue at position state of   *)
(* the ascending sequence of the eigenvalues, untransformed, when          *)
(* 0 <= state < N, and fails, without a value and without clamping, when   *)
(* state is outside [0, N).                                                *)
C13_EigenValueByPositionOrFailure ==
    request.op = "getEigenValue" =>
        /\ Ascending(eigenValues)
        /\ IF 0 <= request.state /\ request.state < Len(eigenValues)
           THEN /\ container.kind = "value"
                /\ container.value = eigenValues[request.state + 1]
           ELSE /\ container.kind = "failed"
                /\ DOMAIN container = {"kind"}

\* getEigenValue(N) was called on a solver with N > 0 eigenvalues, and failed
C13_Witness ==
    /\ request.op = "getEigenValue"
    /\ Len(eigenValues) > 0
    /\ request.state = Len(eigenValues)
    /\ container.kind = "failed"

\* the pairs (matched Index, requested state) of the call
RequestedPairs ==
    {idx \in Range(indexSpace) :
        \E m \in 1..Len(request.patterns) : Matches(request.patterns[m], idx)}
      \X (IF request.states = <<IDX_ALL>> THEN 0..(Len(eigenValues) - 1)
          ELSE Range(request.states))

\* the pair the entry at position m of the container belongs to
EntryPair(m) ==
    <<container.indices[((m - 1) \div Len(container.states)) + 1],
      container.states[((m - 1) % Len(container.states)) + 1]>>

(* C14: the container of calculateWaveFunctions(patterns, states) has      *)
(* exactly one entry for every pair of an Index matched by the patterns    *)
(* and a requested state, the entry holds amplitude(state, index), and no  *)
(* entry belongs to another pair; with {IDX_ALL} as states the container   *)
(* is the one of the call that lists every state 0..N-1.                   *)
C14_OneEntryPerIndexAndState ==
    (request.op = "calculateWaveFunctions" /\ container.kind = "waveFunctions") =>
        /\ \A pair \in RequestedPairs :
               Cardinality({m \in 1..Len(container.data) : EntryPair(m) = pair}) = 1
        /\ \A m \in 1..Len(container.data) :
               /\ EntryPair(m) \in RequestedPairs
               /\ container.data[m] = eigenVectors[<<EntryPair(m)[2], EntryPair(m)[1]>>]
        /\ request.states = <<IDX_ALL>>
              => container = CalculateWaveFunctionsOf(request.patterns, AllStates)

\* two overlapping patterns and {IDX_ALL}: several Indices and several
\* states are in the container, with different amplitudes
C14_Witness ==
    /\ request.op = "calculateWaveFunctions"
    /\ container.kind = "waveFunctions"
    /\ request.states = <<IDX_ALL>>
    /\ Len(request.patterns) = 2
    /\ \E idx \in Range(indexSpace) :
          Matches(request.patterns[1], idx) /\ Matches(request.patterns[2], idx)
    /\ Len(container.indices) > 1
    /\ Len(container.states) > 1
    /\ \E i, j \in 1..Len(container.data) : container.data[i] # container.data[j]

\* the pattern of the list shape that selects what the pattern with ranges
\* selects: its axes are IDX_ALL
AsCustomPattern(pattern) ==
    [m \in 1..Len(pattern) |-> IF pattern[m] \in {IDX_X, IDX_Y} THEN IDX_ALL ELSE pattern[m]]

\* the concrete Indices a pattern with ranges covers
CoveredByRanges(pattern, ranges) ==
    {idx \in (0..(MaxSites - 1)) \X Spins :
        \A m \in 1..2 :
            IF pattern[m] \in {IDX_X, IDX_Y, IDX_SUM_ALL}
            THEN idx[m] < ranges[m]
            ELSE pattern[m] = IDX_SPIN \/ pattern[m] = idx[m]}

\* the two call shapes are asked for the same Indices
EquivalentIndexSets(pattern, ranges) ==
    CoveredByRanges(pattern, ranges)
        = {idx \in Range(indexSpace) : Matches(AsCustomPattern(pattern), idx)}

\* the entry of the list shape for the coordinates k of the shape with ranges
CustomKey(pattern, k) ==
    <<IF pattern[1] = IDX_X THEN k[1] ELSE pattern[1],
      IF pattern[2] = IDX_Y THEN k[Len(k)] ELSE pattern[2]>>

\* the pattern that sums every subindex
FullySummed(property) ==
    <<IDX_SUM_ALL, IF SpinResolved(property) THEN IDX_SPIN ELSE IDX_SUM_ALL>>

\* the patterns that select one concrete Index each
ConcretePatterns(property) ==
    {CallIndex(FullySummed(property), idx) : idx \in Range(indexSpace)}

\* the sum of the results of one call per concrete pattern of S
RECURSIVE ExplicitSum(_, _)
ExplicitSum(property, S) ==
    IF S = {} THEN ZeroValue(property)
    ELSE LET e == CHOOSE x \in S : TRUE
         IN  AddValue(CalculatePatternsOf(property, <<e>>).values[e],
                      ExplicitSum(property, S \ {e}))

(* C15: for Density, Magnetization, LDOS and SpinPolarizedLDOS, the call   *)
(* with one pattern and ranges and the call with a list of patterns give   *)
(* the same values when they are asked for the same Indices; and the       *)
(* value of a fully summed pattern is the sum of the values of the calls   *)
(* that name every concrete Index one by one.                              *)
C15_CallShapesAgree ==
    /\ (request.op = "calculateRanges"
          /\ EquivalentIndexSets(request.pattern, request.ranges)) =>
           LET custom == CalculatePatternsOf(request.property,
                                             <<AsCustomPattern(request.pattern)>>)
           IN  IF container.kind = "failed" THEN custom.kind = "failed"
               ELSE /\ custom.kind = "custom"
                    /\ Cardinality(DOMAIN container.data) = Cardinality(DOMAIN custom.values)
                    /\ \A k \in DOMAIN container.data :
                          /\ CustomKey(request.pattern, k) \in DOMAIN custom.values
                          /\ container.data[k]
                               = custom.values[CustomKey(request.pattern, k)]
    /\ (request.op = "calculatePatterns"
          /\ request.patterns = <<FullySummed(request.property)>>) =>
           LET explicit == ConcretePatterns(request.property)
           IN  IF \E e \in explicit :
                     CalculatePatternsOf(request.property, <<e>>).kind = "failed"
               THEN container.kind = "failed"
               ELSE /\ container.kind = "custom"
                    /\ DOMAIN container.values = {FullySummed(request.property)}
                    /\ container.values[FullySummed(request.property)]
                         = ExplicitSum(request.property, explicit)

\* a call with an axis and a summed subindex, for the Indices of the Model:
\* two entries with different values
C15_Witness ==
    /\ request.op = "calculateRanges"
    /\ request.pattern = <<IDX_X, IDX_SUM_ALL>>
    /\ EquivalentIndexSets(request.pattern, request.ranges)
    /\ container.kind = "ranges"
    /\ \E j, k \in DOMAIN container.data :
          /\ container.data[j] # container.data[k]
          /\ container.data[j] # ZeroValue(request.property)
          /\ container.data[k] # ZeroValue(request.property)

(***************************************************************************)
(* Claims on RayTracer::EventHandler.                                      *)
(***************************************************************************)
(* C16: the EventHandler is held by at most one owner. A lock() that       *)
(* returns true leaves the handler locked with the owner and the callback  *)
(* of that call. While it is locked by A, every lock() returns false and   *)
(* leaves owner and callback unchanged, every unlock(B) with B # A returns *)
(* false and leaves it locked by A, and unlock(A) returns true and leaves  *)
(* it unlocked with no owner and no callback.                              *)
C16_HeldByOneOwner ==
    [][/\ (handlerCall'.op = "lock" /\ handlerCall'.returned) =>
              /\ ~isLocked
              /\ isLocked'
              /\ owner' = handlerCall'.owner
              /\ lambdaOnMouseChange' = handlerCall'.lambda
       /\ isLocked =>
              /\ handlerCall'.op = "lock" =>
                    /\ ~handlerCall'.returned
                    /\ UNCHANGED <<isLocked, owner, lambdaOnMouseChange>>
              /\ (handlerCall'.op = "unlock" /\ handlerCall'.owner # owner) =>
                    /\ ~handlerCall'.returned
                    /\ UNCHANGED <<isLocked, owner, lambdaOnMouseChange>>
              /\ (handlerCall'.op = "unlock" /\ handlerCall'.owner = owner) =>
                    /\ handlerCall'.returned
                    /\ ~isLocked'
                    /\ owner' = Nullptr
                    /\ lambdaOnMouseChange' = Nullptr
              /\ handlerCall'.op \notin {"lock", "unlock"} =>
                    UNCHANGED <<isLocked, owner, lambdaOnMouseChange>>]_vars

\* the handler is locked by a RayTracer, and the unlock() of another one
\* has just returned false
C16_Witness ==
    /\ isLocked
    /\ owner \in RayTracers
    /\ handlerCall.op = "unlock"
    /\ handlerCall.owner \in RayTracers \ {owner}
    /\ ~handlerCall.returned

(***************************************************************************)
(* Further claims on GPUResourceManager.                                   *)
(***************************************************************************)
\* allocateDevice() has returned d to t, and freeDevice(d) has not yet
\* cleared the flag
HoldsReturned(t, d) ==
    \/ lease[t] = d
    \/ pc[t] \in {"free_set_lock", "free_write"} /\ device[t] = d

\* line 46 has marked d for t, and line 63 has not yet cleared the flag
HoldsMarked(t, d) ==
    \/ HoldsReturned(t, d)
    \/ done[t] /\ device[t] = d

(* C17 as stated: in every reachable state busyDevices[n] is true if and   *)
(* only if exactly one caller holds n, allocateDevice() having returned n  *)
(* to it and the caller not having freed n yet; the number of set flags is *)
(* the number of outstanding leases and is at most numDevices.             *)
C17_FlagIffReturnedLease ==
    /\ \A d \in Devices :
           busyDevices[d] <=> Cardinality({t \in Threads : HoldsReturned(t, d)}) = 1
    /\ Cardinality({d \in Devices : busyDevices[d]})
           = Cardinality({q \in Threads \X Devices : HoldsReturned(q[1], q[2])})
    /\ Cardinality({d \in Devices : busyDevices[d]}) <= numDevices

(* C17 amended: in every reachable state busyDevices[n] is true if and     *)
(* only if exactly one caller holds n, where the hold runs from line 46,   *)
(* which marks n inside allocateDevice() before the call returns, to line  *)
(* 63 of freeDevice(n); the number of set flags is the number of these     *)
(* holds and is at most numDevices.                                        *)
C17_FlagIffMarkedLease ==
    /\ \A d \in Devices :
           busyDevices[d] <=> Cardinality({t \in Threads : HoldsMarked(t, d)}) = 1
    /\ \A d \in Devices : Cardinality({t \in Threads : HoldsMarked(t, d)}) <= 1
    /\ Cardinality({d \in Devices : busyDevices[d]})
           = Cardinality({q \in Threads \X Devices : HoldsMarked(q[1], q[2])})
    /\ Cardinality({d \in Devices : busyDevices[d]}) <= numDevices

\* one caller holds a returned device, another one has a device marked
\* inside allocateDevice() and has not returned yet, a third one polls
C17_Witness ==
    \E t, u, v \in Threads :
        /\ lease[t] \in Devices
        /\ pc[u] = "alloc_unset_lock" /\ done[u] /\ device[u] # lease[t]
        /\ Pending(v)
        /\ AllBusy

(* C18: the lock is held only inside one scan or one flag write: a thread  *)
(* that has it is between omp_set_lock and omp_unset_lock of one iteration *)
(* of allocateDevice() or of freeDevice(), and every iteration of the      *)
(* polling loop ends with the lock released, whether it found a device or  *)
(* not; and under a fair lock a freeDevice() that was called completes,    *)
(* whatever the allocateDevice() calls that poll a busy pool.              *)
C18_LockShortHeldAndFreeCompletes ==
    /\ [](\A t \in Threads : busyDevicesLock = t => InLockedSection(t))
    /\ [][\A t \in Threads :
             (pc[t] = "alloc_unset_lock" /\ pc'[t] # "alloc_unset_lock")
                 => busyDevicesLock' = NoThread]_vars
    /\ \A t \in LiveThreads :
           (pc[t] = "free_set_lock") ~> (pc[t] \in {"idle", "propagate"})

\* a freeDevice() is completing while another thread, whose last scan found
\* every device busy, is about to poll again
C18_Witness ==
    \E t, u \in LiveThreads :
        /\ pc[t] = "free_unset_lock"
        /\ pc[u] = "alloc_set_lock"
        /\ ~done[u]
        /\ numDevices >= 1
        /\ n[u] = numDevices

(* C19: allocateDevice() takes the lowest-numbered free device: when line  *)
(* 46 marks n, n was free and every m < n is busy; that step changes the   *)
(* flag of n and no other, no other step of the call changes a flag, and   *)
(* the call returns the n it marked.                                       *)
C19_LowestFreeDevice ==
    [][\A t \in Threads :
          /\ (pc[t] = "alloc_take" /\ pc'[t] # "alloc_take") =>
                /\ \A m \in 0..(n[t] - 1) : busyDevices[m]
                /\ ~busyDevices[n[t]]
                /\ busyDevices' = [busyDevices EXCEPT ![n[t]] = TRUE]
                /\ device'[t] = n[t]
          /\ (pc[t] \in {"idle", "alloc_set_lock", "alloc_test", "alloc_unset_lock",
                         "alloc_return"} /\ pc'[t] # pc[t]) =>
                busyDevices' = busyDevices
          /\ (pc[t] = "alloc_return" /\ pc'[t] # "alloc_return") =>
                /\ lease'[t] = device[t]
                /\ busyDevices[device[t]]]_vars

\* a call has marked a device other than 0, every lower one being busy
C19_Witness ==
    \E t \in Threads :
        /\ pc[t] = "alloc_unset_lock"
        /\ done[t]
        /\ device[t] >= 1
        /\ \A m \in 0..(device[t] - 1) : busyDevices[m]
        /\ \E u \in Threads : lease[u] = 0


====
